---------------------------- MODULE Spec2Model ----------------------------
(***************************************************************************)
(* Sorting-Algorithm-Visualizer: the recording-and-replay animation core   *)
(* of ArrayVisualizerComponent (array-visualizer.ts) with its callers in   *)
(* OptionsComponent and AppComponent.                                      *)
(*                                                                         *)
(* Arrays of the program are functions over 0..N-1, so every index of the  *)
(* model is the index the source uses.  The animation logs, which the      *)
(* source only pushes to, reverses and pops, are sequences.                *)
(***************************************************************************)
EXTENDS Integers, Sequences, FiniteSets

(***************************************************************************)
(* Bounds of the model.                                                    *)
(***************************************************************************)
\* longest generated array
MaxLen == 3
\* values are drawn from 0..MaxVal (the program draws from [0, 300])
MaxVal == 1
\* height of the wrapper element, the range of heightScale
WrapperHeight == 4

(***************************************************************************)
(* Arrays.                                                                 *)
(***************************************************************************)
Length(array) == Cardinality(DOMAIN array)

Values(array) == {array[i] : i \in DOMAIN array}

Arrays(n, S) == [0..(n - 1) -> S]

\* Array.prototype.reverse on a log
Reverse(log) == [k \in 1..Len(log) |-> log[Len(log) + 1 - k]]

\* Array.prototype.sort((a, b) => a - b): the ascending arrangement of the
\* same numbers, written without reference to any of the four algorithms.
SortAscending(array) ==
    [k \in DOMAIN array |->
        CHOOSE v \in Values(array) :
            /\ Cardinality({i \in DOMAIN array : array[i] < v}) <= k
            /\ k < Cardinality({i \in DOMAIN array : array[i] <= v})]

IsSortedAscending(array) ==
    \A i, j \in DOMAIN array : i < j => array[i] <= array[j]

\* number of occurrences of v
Occurrences(array, v) == Cardinality({i \in DOMAIN array : array[i] = v})

IsPermutationOf(a, b) ==
    /\ DOMAIN a = DOMAIN b
    /\ \A v \in Values(a) \cup Values(b) : Occurrences(a, v) = Occurrences(b, v)

(***************************************************************************)
(* swap(array, index1, index2)                                             *)
(***************************************************************************)
swap(array, index1, index2) ==
    [array EXCEPT ![index1] = array[index2], ![index2] = array[index1]]

(***************************************************************************)
(* Bubble Sort.  Each routine takes the array and the animations log and   *)
(* returns both, as the source mutates both in place.                      *)
(***************************************************************************)
\* the test of bubble's if statement
BubbleOutOfOrderSwapped(array, i) == array[i] < array[i + 1]

BubbleOutOfOrderOrEqual(array, i) == array[i] >= array[i + 1]

BubbleOutOfOrder(array, i) == array[i] > array[i + 1]

RECURSIVE BubbleLoop(_, _, _, _)
BubbleLoop(array, animations, i, hi) ==
    IF i < hi
    THEN IF BubbleOutOfOrder(array, i)
         THEN BubbleLoop(swap(array, i, i + 1),
                         Append(animations, [lo |-> i, hi |-> i + 1]),
                         i + 1, hi)
         ELSE BubbleLoop(array, animations, i + 1, hi)
    ELSE [array |-> array, animations |-> animations]

bubble(array, animations, lo, hi) == BubbleLoop(array, animations, lo, hi)

RECURSIVE BubbleSortLoop(_, _, _)
BubbleSortLoop(array, animations, i) ==
    IF i > 0
    THEN LET r == bubble(array, animations, 0, i)
         IN  BubbleSortLoop(r.array, r.animations, i - 1)
    ELSE [array |-> array, animations |-> animations]

bubbleSort(array, animations) ==
    BubbleSortLoop(array, animations, Length(array) - 1)

(***************************************************************************)
(* Merge Sort.  aux is the component's auxiliaryArray: it is emptied by    *)
(* onOptionClicked and grows as merge writes aux[lo..hi].                  *)
(***************************************************************************)
\* a copy loop that stops one short of hi: aux[hi] keeps what the buffer
\* held before
MergeCopyButLast(a, aux, lo, hi) ==
    [x \in (DOMAIN aux) \cup (lo..hi) |->
        IF x \in lo..(hi - 1) \/ x \notin DOMAIN aux THEN a[x] ELSE aux[x]]

\* the copy loop of merge: aux[i] = a[i] for lo <= i <= hi
MergeCopy(a, aux, lo, hi) ==
    [x \in (DOMAIN aux) \cup (lo..hi) |->
        IF x \in lo..hi THEN a[x] ELSE aux[x]]

MergeTakesRightOnTie(aux, i, j) == aux[i] >= aux[j]

\* the third branch of merge's loop: the right head is strictly smaller
MergeTakesRight(aux, i, j) == aux[i] > aux[j]

\* a merge loop that records the writes it makes while both sub-runs have
\* elements left, and not those it makes after one is exhausted
RECURSIVE MergeLoopSilentWhenExhausted(_, _, _, _, _, _, _, _)
MergeLoopSilentWhenExhausted(a, aux, animations, i, j, k, mid, hi) ==
    IF k <= hi
    THEN IF i > mid
         THEN MergeLoopSilentWhenExhausted([a EXCEPT ![k] = aux[j]], aux,
                                           animations,
                                           i, j + 1, k + 1, mid, hi)
         ELSE IF j > hi
         THEN MergeLoopSilentWhenExhausted([a EXCEPT ![k] = aux[i]], aux,
                                           animations,
                                           i + 1, j, k + 1, mid, hi)
         ELSE IF MergeTakesRight(aux, i, j)
         THEN MergeLoopSilentWhenExhausted(
                  [a EXCEPT ![k] = aux[j]], aux,
                  Append(animations, [index |-> k, value |-> aux[j]]),
                  i, j + 1, k + 1, mid, hi)
         ELSE MergeLoopSilentWhenExhausted(
                  [a EXCEPT ![k] = aux[i]], aux,
                  Append(animations, [index |-> k, value |-> aux[i]]),
                  i + 1, j, k + 1, mid, hi)
    ELSE [a |-> a, aux |-> aux, animations |-> animations]

RECURSIVE MergeLoop(_, _, _, _, _, _, _, _)
MergeLoop(a, aux, animations, i, j, k, mid, hi) ==
    IF k <= hi
    THEN IF i > mid
         THEN MergeLoop([a EXCEPT ![k] = aux[j]], aux,
                        Append(animations, [index |-> k, value |-> aux[j]]),
                        i, j + 1, k + 1, mid, hi)
         ELSE IF j > hi
         THEN MergeLoop([a EXCEPT ![k] = aux[i]], aux,
                        Append(animations, [index |-> k, value |-> aux[i]]),
                        i + 1, j, k + 1, mid, hi)
         ELSE IF MergeTakesRight(aux, i, j)
         THEN MergeLoop([a EXCEPT ![k] = aux[j]], aux,
                        Append(animations, [index |-> k, value |-> aux[j]]),
                        i, j + 1, k + 1, mid, hi)
         ELSE MergeLoop([a EXCEPT ![k] = aux[i]], aux,
                        Append(animations, [index |-> k, value |-> aux[i]]),
                        i + 1, j, k + 1, mid, hi)
    ELSE [a |-> a, aux |-> aux, animations |-> animations]

merge(a, aux, animations, lo, mid, hi) ==
    MergeLoop(a, MergeCopy(a, aux, lo, hi), animations,
              lo, mid + 1, lo, mid, hi)

\* the index of aux that one iteration of merge's loop reads, by the four
\* branches of the loop
MergeSource(aux, i, j, mid, hi) ==
    IF i > mid THEN j
    ELSE IF j > hi THEN i
    ELSE IF MergeTakesRight(aux, i, j) THEN j
    ELSE i

\* for every k of merge's loop the index of aux whose element was written
\* to a[k]; aux is the buffer after the copy
RECURSIVE MergeSources(_, _, _, _, _, _, _)
MergeSources(aux, i, j, k, mid, hi, sources) ==
    IF k <= hi
    THEN LET source == MergeSource(aux, i, j, mid, hi)
         IN  MergeSources(aux,
                          IF source = i THEN i + 1 ELSE i,
                          IF source = j THEN j + 1 ELSE j,
                          k + 1, mid, hi,
                          [x \in (DOMAIN sources) \cup {k} |->
                              IF x = k THEN source ELSE sources[x]])
    ELSE sources

\* a midpoint rounded up
MergeMidRoundedUp(lo, hi) == lo + ((hi - lo + 1) \div 2)

\* Math.floor(lo + (hi - lo) / 2)
MergeMid(lo, hi) == lo + ((hi - lo) \div 2)

RECURSIVE mergeSort(_, _, _, _, _)
mergeSort(a, aux, animations, lo, hi) ==
    IF hi <= lo
    THEN [a |-> a, aux |-> aux, animations |-> animations]
    ELSE LET mid   == MergeMid(lo, hi)
             left  == mergeSort(a, aux, animations, lo, mid)
             right == mergeSort(left.a, left.aux, left.animations, mid + 1, hi)
         IN  merge(right.a, right.aux, right.animations, lo, mid, hi)

(***************************************************************************)
(* Quick Sort.  A read of array[x] with x outside the array yields         *)
(* undefined in the source, and every comparison with undefined is false:  *)
(* the two scan conditions state that.                                     *)
(***************************************************************************)
\* a low-cursor scan without the boundary check: it stops only at an
\* element above the pivot or past the end of the array
RECURSIVE ScanStartUnchecked(_, _, _, _)
ScanStartUnchecked(array, pivot, start, hi) ==
    IF start \in DOMAIN array /\ array[start] <= pivot
    THEN ScanStartUnchecked(array, pivot, start + 1, hi)
    ELSE start

\* while (array[start] <= pivot) { if (start >= hi) break; start++; }
RECURSIVE ScanStart(_, _, _, _)
ScanStart(array, pivot, start, hi) ==
    IF start \in DOMAIN array /\ array[start] <= pivot
    THEN IF start >= hi
         THEN start
         ELSE ScanStart(array, pivot, start + 1, hi)
    ELSE start

\* while (array[end] > pivot) { end--; }
RECURSIVE ScanEnd(_, _, _)
ScanEnd(array, pivot, end) ==
    IF end \in DOMAIN array /\ array[end] > pivot
    THEN ScanEnd(array, pivot, end - 1)
    ELSE end

\* the while (true) loop of partition
RECURSIVE PartitionLoop(_, _, _, _, _, _)
PartitionLoop(array, animations, pivot, start, end, hi) ==
    LET s == ScanStart(array, pivot, start, hi)
        e == ScanEnd(array, pivot, end)
    IN  IF s >= e
        THEN [array |-> array, animations |-> animations,
              start |-> s, end |-> e]
        ELSE PartitionLoop(
                 swap(array, s, e),
                 Append(animations,
                        [name |-> "swap-element", index1 |-> s, index2 |-> e]),
                 pivot, s, e, hi)

\* a partition that leaves the pivot where it was
partitionPivotNotPlaced(array, animations, lo, hi) ==
    LET r == PartitionLoop(array, animations, array[lo], lo, hi, hi)
    IN  [array      |-> r.array,
         animations |-> Append(r.animations,
                               [name |-> "swap-pivot", pivotIndex |-> lo,
                                swapIndex |-> r.end]),
         start      |-> r.start,
         end        |-> r.end]

\* a partition that records the pivot swap only when it moves the pivot
partitionSkipsSelfSwap(array, animations, lo, hi) ==
    LET r == PartitionLoop(array, animations, array[lo], lo, hi, hi)
    IN  [array      |-> swap(r.array, lo, r.end),
         animations |-> IF lo = r.end
                        THEN r.animations
                        ELSE Append(r.animations,
                                    [name |-> "swap-pivot", pivotIndex |-> lo,
                                     swapIndex |-> r.end]),
         start      |-> r.start,
         end        |-> r.end]

\* returns the array, the log and the returned index (end), and with them
\* where the low cursor stood when the loop was left
partition(array, animations, lo, hi) ==
    LET r == PartitionLoop(array, animations, array[lo], lo, hi, hi)
    IN  [array      |-> swap(r.array, lo, r.end),
         animations |-> Append(r.animations,
                               [name |-> "swap-pivot", pivotIndex |-> lo,
                                swapIndex |-> r.end]),
         start      |-> r.start,
         end        |-> r.end]

RECURSIVE quickSort(_, _, _, _)
quickSort(array, animations, lo, hi) ==
    IF lo >= hi
    THEN [array |-> array, animations |-> animations]
    ELSE LET p     == partition(array, animations, lo, hi)
             left  == quickSort(p.array, p.animations, lo, p.end - 1)
         IN  quickSort(left.array, left.animations, p.end + 1, hi)

(***************************************************************************)
(* The loops of merge and partition, one iteration at a time.              *)
(***************************************************************************)
\* one iteration of merge's loop: the write to a[k], the record of it and
\* the cursors after it
MergeIteration(a, aux, animations, i, j, k, mid, hi) ==
    IF i > mid
    THEN [a |-> [a EXCEPT ![k] = aux[j]],
          animations |-> Append(animations, [index |-> k, value |-> aux[j]]),
          i |-> i, j |-> j + 1]
    ELSE IF j > hi
    THEN [a |-> [a EXCEPT ![k] = aux[i]],
          animations |-> Append(animations, [index |-> k, value |-> aux[i]]),
          i |-> i + 1, j |-> j]
    ELSE IF MergeTakesRight(aux, i, j)
    THEN [a |-> [a EXCEPT ![k] = aux[j]],
          animations |-> Append(animations, [index |-> k, value |-> aux[j]]),
          i |-> i, j |-> j + 1]
    ELSE [a |-> [a EXCEPT ![k] = aux[i]],
          animations |-> Append(animations, [index |-> k, value |-> aux[i]]),
          i |-> i + 1, j |-> j]

\* one iteration of partition's while (true) loop: the two scans, then the
\* break or the swap and its record
PartitionIteration(array, animations, pivot, start, end, hi) ==
    LET s == ScanStart(array, pivot, start, hi)
        e == ScanEnd(array, pivot, end)
    IN  IF s >= e
        THEN [array |-> array, animations |-> animations,
              start |-> s, end |-> e, broke |-> TRUE]
        ELSE [array |-> swap(array, s, e),
              animations |-> Append(animations,
                                    [name |-> "swap-element",
                                     index1 |-> s, index2 |-> e]),
              start |-> s, end |-> e, broke |-> FALSE]

\* a pivot swap that is not recorded
PlacePivotUnrecorded(array, animations, lo, end) ==
    [array |-> swap(array, lo, end), animations |-> animations]

\* what partition does after its loop: swap(array, lo, end) and the
\* swap-pivot record
PlacePivot(array, animations, lo, end) ==
    [array      |-> swap(array, lo, end),
     animations |-> Append(animations,
                           [name |-> "swap-pivot", pivotIndex |-> lo,
                            swapIndex |-> end])]

(***************************************************************************)
(* Counting Sort.                                                          *)
(***************************************************************************)
\* Math.max(...array).  Math.max() of no arguments is -Infinity, which the
\* source uses only in the bound i < max + 1 of a loop that then runs zero
\* times; -1 gives the same bound.
MathMax(array) ==
    IF DOMAIN array = {}
    THEN -1
    ELSE CHOOSE m \in Values(array) : \A v \in Values(array) : v <= m

\* count after the first two loops: count[key] = occurrences of key
CountKeys(array) ==
    [key \in 0..MathMax(array) |-> Occurrences(array, key)]

\* counts left as they are, not made cumulative
CountAccumulateSkipped(count, i) == count

\* for (i = 0; i < count.length - 1; i++) count[i + 1] += count[i]
RECURSIVE CountAccumulate(_, _)
CountAccumulate(count, i) ==
    IF i < Length(count) - 1
    THEN CountAccumulate([count EXCEPT ![i + 1] = @ + count[i]], i + 1)
    ELSE count

\* count[key] read without the decrement
SortedPositionNotDecremented(count, key) == count[key]

\* const sortedPosition = --count[key]
SortedPosition(count, key) == count[key] - 1

\* a placement loop that walks the input from the front
RECURSIVE CountPlaceForward(_, _, _, _, _, _)
CountPlaceForward(array, count, aux, animations, slot, i) ==
    IF i < Length(array)
    THEN LET key            == array[i]
             sortedPosition == SortedPosition(count, key)
         IN  CountPlaceForward(array,
                               [count EXCEPT ![key] = sortedPosition],
                               [aux EXCEPT ![sortedPosition] = key],
                               Append(animations,
                                      [index |-> sortedPosition,
                                       newValue |-> key]),
                               [slot EXCEPT ![i] = sortedPosition],
                               i + 1)
    ELSE [array |-> aux, animations |-> animations, slot |-> slot]

\* the placement loop, for (i = array.length - 1; i >= 0; i--), followed by
\* the copy of aux over the array; slot[i] keeps the sortedPosition computed
\* for input position i
RECURSIVE CountPlace(_, _, _, _, _, _)
CountPlace(array, count, aux, animations, slot, i) ==
    IF i >= 0
    THEN LET key            == array[i]
             sortedPosition == SortedPosition(count, key)
         IN  CountPlace(array,
                        [count EXCEPT ![key] = sortedPosition],
                        [aux EXCEPT ![sortedPosition] = key],
                        Append(animations,
                               [index |-> sortedPosition, newValue |-> key]),
                        [slot EXCEPT ![i] = sortedPosition],
                        i - 1)
    ELSE [array |-> aux, animations |-> animations, slot |-> slot]

countingSortForward(array, animations) ==
    CountPlaceForward(array,
                      CountAccumulate(CountKeys(array), 0),
                      [i \in DOMAIN array |-> 0],
                      animations,
                      [i \in DOMAIN array |-> -1],
                      0)

\* returns the array (aux copied back), the log and the slot of every input
\* position
countingSort(array, animations) ==
    CountPlace(array,
               CountAccumulate(CountKeys(array), 0),
               [i \in DOMAIN array |-> 0],
               animations,
               [i \in DOMAIN array |-> -1],
               Length(array) - 1)

(***************************************************************************)
(* The Display State: binDimensions and the two d3 scales it is computed   *)
(* with.  The scales are fixed by the extent (min, max) of the array they  *)
(* were created for.                                                       *)
(***************************************************************************)
\* width of the wrapper element
WrapperWidth == 12

\* the colour the validation animation paints a bin with
Green == -1

\* d3.extent(generatedArray): the smallest and the largest value; no bin is
\* ever scaled for an empty array
RECURSIVE ExtentLoop(_, _, _, _)
ExtentLoop(array, i, min, max) ==
    IF i \in DOMAIN array
    THEN ExtentLoop(array, i + 1,
                    IF array[i] < min THEN array[i] ELSE min,
                    IF array[i] > max THEN array[i] ELSE max)
    ELSE <<min, max>>

Extent(array) ==
    IF DOMAIN array = {}
    THEN <<0, 0>>
    ELSE ExtentLoop(array, 1, array[0], array[0])

\* heightScale: d3.scaleLinear().domain(extent).range([0, wrapper height]);
\* a domain of one point maps to the middle of the range
HeightScale(domain, value) ==
    IF domain[2] = domain[1]
    THEN WrapperHeight \div 2
    ELSE ((value - domain[1]) * WrapperHeight) \div (domain[2] - domain[1])

\* colorScale: d3.scaleSequential().domain(extentScaled) with the Viridis
\* interpolator; a colour is the shade 0..255 it interpolates to, never Green
ColorScale(domain, heightScaled) ==
    IF domain[2] = domain[1]
    THEN 127
    ELSE ((heightScaled - domain[1]) * 255) \div (domain[2] - domain[1])

\* createScales(): the domains of heightScale and of colorScale
createScales(array) ==
    LET extent == Extent(array)
    IN  [height |-> extent,
         color  |-> <<HeightScale(extent, extent[1]),
                      HeightScale(extent, extent[2])>>]

\* fixedWidth, and the width string every bin gets
BinWidth(n) == (WrapperWidth \div n) + 3 + 2

calculateBinDimensions(array, scale) ==
    LET width == BinWidth(Length(array))
    IN  [i \in DOMAIN array |->
            LET heightScaled == HeightScale(scale.height, array[i])
            IN  [value  |-> array[i],
                 width  |-> width,
                 height |-> heightScaled,
                 color  |-> ColorScale(scale.color, heightScaled)]]

\* a bin given the height and colour of the new value and left with the
\* value it had
calculateBinDimensionKeepsValue(bins, scale, i, value) ==
    LET heightScaled == HeightScale(scale.height, value)
    IN  [bins EXCEPT ![i] = [value  |-> @.value,
                             width  |-> @.width,
                             height |-> heightScaled,
                             color  |-> ColorScale(scale.color, heightScaled)]]

calculateBinDimension(bins, scale, i, value) ==
    LET heightScaled == HeightScale(scale.height, value)
    IN  [bins EXCEPT ![i] = [value  |-> value,
                             width  |-> @.width,
                             height |-> heightScaled,
                             color  |-> ColorScale(scale.color, heightScaled)]]

\* the values the Display State shows
DisplayValues(bins) == [i \in DOMAIN bins |-> bins[i].value]

\* what JavaScript reads from a record that has no such field, and what
\* the scales give for it
Undefined == -2

\* action.name for a record of any of the four routines
Field(action, name) ==
    IF name \in DOMAIN action THEN action[name] ELSE Undefined

\* an exchange of the two values that leaves height and colour in place
swapBinsValueOnly(bins, index1, index2) ==
    IF index1 \in DOMAIN bins /\ index2 \in DOMAIN bins
    THEN [bins EXCEPT ![index1] = [@ EXCEPT !.value = bins[index2].value],
                      ![index2] = [@ EXCEPT !.value = bins[index1].value]]
    ELSE bins

\* the three-assignment exchange of two bins in a replay tick; with
\* undefined indices it touches no bin
swapBins(bins, index1, index2) ==
    IF index1 \in DOMAIN bins /\ index2 \in DOMAIN bins
    THEN swap(bins, index1, index2)
    ELSE bins

\* calculateBinDimension(i, value) as a replay tick calls it; with an
\* undefined index the first assignment throws and no bin changes, with an
\* undefined value the bin's value, height and colour become undefined
setBinDimension(bins, scale, i, value) ==
    IF i \notin DOMAIN bins
    THEN bins
    ELSE IF value = Undefined
    THEN [bins EXCEPT ![i] = [@ EXCEPT !.value = Undefined,
                                       !.height = Undefined,
                                       !.color = Undefined]]
    ELSE calculateBinDimension(bins, scale, i, value)

\* what the four replay ticks do with the record they popped
bubbleSortAnimationMove(bins, scale, action) ==
    swapBins(bins, Field(action, "lo"), Field(action, "hi"))

animateMergeSortMove(bins, scale, action) ==
    setBinDimension(bins, scale, Field(action, "index"),
                    Field(action, "value"))

animateCountingSortMove(bins, scale, action) ==
    setBinDimension(bins, scale, Field(action, "index"),
                    Field(action, "newValue"))

\* switch (action.name): a record without a name matches no case
HasName(action, name) ==
    "name" \in DOMAIN action /\ action.name = name

animateQuickSortMove(bins, scale, action) ==
    CASE HasName(action, "swap-element") ->
            swapBins(bins, action.index1, action.index2)
      [] HasName(action, "swap-pivot") ->
            swapBins(bins, action.pivotIndex, action.swapIndex)
      [] OTHER -> bins

(***************************************************************************)
(* validateArray: the loop over the reference sort, which stops at the     *)
(* first index whose displayed value differs.                              *)
(***************************************************************************)
\* a loop that skips a mismatch instead of stopping at it
RECURSIVE ValidateLoopNoBreak(_, _, _, _)
ValidateLoopNoBreak(bins, sorted, validationAnimations, i) ==
    IF i < Length(sorted)
    THEN IF bins[i].value = sorted[i]
         THEN ValidateLoopNoBreak(bins, sorted,
                                  Append(validationAnimations,
                                         [index |-> i,
                                          originalColor |-> bins[i].color]),
                                  i + 1)
         ELSE ValidateLoopNoBreak(bins, sorted, validationAnimations, i + 1)
    ELSE validationAnimations

RECURSIVE ValidateLoop(_, _, _, _)
ValidateLoop(bins, sorted, validationAnimations, i) ==
    IF i < Length(sorted)
    THEN IF bins[i].value = sorted[i]
         THEN ValidateLoop(bins, sorted,
                           Append(validationAnimations,
                                  [index |-> i,
                                   originalColor |-> bins[i].color]),
                           i + 1)
         ELSE validationAnimations
    ELSE validationAnimations

\* returns the validation records; sorted is generatedArrayUnsorted after the
\* in-place sort
validateArray(bins, sorted, validationAnimations) ==
    ValidateLoop(bins, sorted, validationAnimations, 0)

(***************************************************************************)
(* State.                                                                  *)
(***************************************************************************)
VARIABLES
    \* ArrayService (its source is not part of the sources at hand)
    serviceArray,             \* the array the service generated
    \* ArrayVisualizerComponent
    generatedArray,           \* the Working Array
    generatedArrayUnsorted,   \* copy taken by onOptionClicked
    binDimensions,            \* the Display State
    scales,                   \* the domains of heightScale and colorScale
    animations,               \* the Move Log
    validationAnimations,     \* the Validation Records
    auxiliaryArray,           \* merge sort's buffer
    \* timers
    replayTimers,             \* active replay intervals, per animation method
    validationTimers,         \* number of active animateValidation intervals
    restoreTimeouts,          \* pending colour restores, oldest first
    \* OptionsComponent and AppComponent
    buttonDisabled,           \* the disabled attribute of the four buttons
    buttonActive,             \* the active class of the four buttons
    activeOptionIndex,        \* -1 for undefined
    optionsArraySize,         \* OptionsComponent.currentArraySize, -1 for undefined
    currentArraySize,         \* AppComponent.currentArraySize
    optionClicked,            \* AppComponent.optionClicked
    \* what the current run did (kept for the properties, never read)
    option,                   \* the option of the run, "none" before any
    preSort,                  \* generatedArray as the sort routine received it
    recorded,                 \* the Move Log as the sort routine emitted it
    slot,                     \* counting sort: slot of every input position
    applied,                  \* the moves the replay ticks applied, in order
    phases,                   \* the phases the run entered, in order
    validateCalls,            \* how often the run invoked validate()
    cleared,                  \* how often the run called clearInterval, per timer
    validated,                \* how often the run emitted validatedSubj
    call                      \* a routine called on its own: its arguments
                              \* and, once it returned, its result

vars == <<serviceArray, generatedArray, generatedArrayUnsorted, binDimensions,
          scales, animations, validationAnimations, auxiliaryArray,
          replayTimers, validationTimers, restoreTimeouts,
          buttonDisabled, buttonActive, activeOptionIndex, optionsArraySize,
          currentArraySize, optionClicked,
          option, preSort, recorded, slot, applied, phases,
          validateCalls, cleared, validated, call>>

serviceVars == <<serviceArray>>
arrayVars   == <<generatedArray, generatedArrayUnsorted, auxiliaryArray>>
displayVars == <<binDimensions, scales>>
logVars     == <<animations, validationAnimations>>
timerVars   == <<replayTimers, validationTimers, restoreTimeouts>>
buttonVars  == <<buttonDisabled, buttonActive, activeOptionIndex,
                 optionsArraySize>>
appVars     == <<currentArraySize, optionClicked>>
sortHistory == <<option, preSort, recorded, slot>>
runHistory  == <<applied, phases, validateCalls, cleared, validated>>

NoCall == [routine |-> "none"]

\* OptionsComponent.options
options == <<"Bubble Sort", "Merge Sort", "Counting Sort", "Quick Sort">>

Buttons == 0..3

\* the array size above which the Bubble Sort button stays disabled
BubbleSortLimit == 200

NoTimers == [bubble |-> 0, merge |-> 0, counting |-> 0, quick |-> 0]

NoneCleared == [replay |-> 0, validation |-> 0]

EmptyArray == [i \in {} |-> 0]

\* the phase of the component
Replaying  == replayTimers # NoTimers
Validating == validationTimers > 0
Idle       == ~Replaying /\ ~Validating

(***************************************************************************)
(* ArrayService.  Its source file is not among the sources; it is modelled *)
(* from the interface the specification gives it: generateArray(size)      *)
(* returns size integers of the value domain, getArray() returns a copy of *)
(* the array as generated.                                                 *)
(***************************************************************************)
GeneratableArrays(size) == Arrays(size, 0..MaxVal)

getArray == serviceArray

\* The template that binds the controls is not among the sources either:
\* the specification makes the collaborators disable the controls that start
\* a run or replace the array while a run is not Idle.  A control is used by
\* a person, long after the last colour restore of the run before, which is
\* due within one timer period of that run's completion.
ControlsEnabled == Idle /\ ~optionClicked /\ restoreTimeouts = <<>>

(***************************************************************************)
(* setBinDimensions(size): a new array, new scales, a new Display State.   *)
(* The Move Log and the Validation Records are left as they are.           *)
(***************************************************************************)
setBinDimensions(size) ==
    \E array \in GeneratableArrays(size) :
        /\ serviceArray' = array
        /\ generatedArray' = array
        /\ scales' = createScales(array)
        /\ binDimensions' = calculateBinDimensions(array, scales')
        /\ option' = "none"
        /\ preSort' = array
        /\ recorded' = <<>>
        /\ slot' = EmptyArray
        /\ applied' = <<>>
        /\ phases' = <<>>
        /\ validateCalls' = 0
        /\ cleared' = NoneCleared
        /\ validated' = 0

\* the array size the slider starts at (150 in the source), at the model's
\* scale
DefaultSize == MaxLen

\* the component once ngAfterViewInit has called setBinDimensions and the
\* service returned array
Constructed(array) ==
    /\ serviceArray = array
    /\ generatedArray = array
    /\ scales = createScales(array)
    /\ binDimensions = calculateBinDimensions(array, scales)
    /\ animations = <<>>
    /\ validationAnimations = <<>>
    /\ auxiliaryArray = EmptyArray
    /\ replayTimers = NoTimers
    /\ validationTimers = 0
    /\ restoreTimeouts = <<>>
    /\ buttonDisabled = [i \in Buttons |-> FALSE]
    /\ buttonActive = [i \in Buttons |-> FALSE]
    /\ activeOptionIndex = -1
    /\ optionsArraySize = -1
    /\ currentArraySize = Length(array)
    /\ optionClicked = FALSE
    /\ option = "none"
    /\ preSort = array
    /\ recorded = <<>>
    /\ slot = EmptyArray
    /\ applied = <<>>
    /\ phases = <<>>
    /\ validateCalls = 0
    /\ cleared = NoneCleared
    /\ validated = 0

Init ==
    /\ \E array \in GeneratableArrays(DefaultSize) : Constructed(array)
    /\ generatedArrayUnsorted = EmptyArray
    /\ call = NoCall

(***************************************************************************)
(* AppComponent.onGenerateArray and AppComponent.onRangeChange             *)
(***************************************************************************)
onGenerateArray ==
    /\ ControlsEnabled
    /\ setBinDimensions(currentArraySize)
    /\ UNCHANGED <<generatedArrayUnsorted, auxiliaryArray, logVars, timerVars,
                   buttonVars, appVars, call>>

\* the sliderChangeSubj subscriber of OptionsComponent
OptionsSliderChanged(currentRangeValue) ==
    /\ optionsArraySize' = currentRangeValue
    /\ buttonDisabled' =
           [buttonDisabled EXCEPT ![0] = (currentRangeValue > BubbleSortLimit)]
    /\ UNCHANGED <<buttonActive, activeOptionIndex>>

onRangeChange(currentValue) ==
    /\ ControlsEnabled
    /\ currentArraySize' = currentValue
    /\ setBinDimensions(currentValue)
    /\ OptionsSliderChanged(currentValue)
    /\ UNCHANGED <<generatedArrayUnsorted, auxiliaryArray, logVars, timerVars,
                   optionClicked, call>>

(***************************************************************************)
(* onOptionClicked: the click handler of OptionsComponent, then the two    *)
(* subscribers of optionClickedSubj (AppComponent, ArrayVisualizer).       *)
(***************************************************************************)
\* the switch of ArrayVisualizerComponent.onOptionClicked: the sort routine
\* of the option, run on the component's arrays with an empty log
RunSort(opt, array) ==
    CASE opt = "Bubble Sort" ->
            LET r == bubbleSort(array, <<>>)
            IN  [array |-> r.array, aux |-> EmptyArray,
                 animations |-> r.animations, slot |-> EmptyArray,
                 timer |-> "bubble"]
      [] opt = "Merge Sort" ->
            LET r == mergeSort(array, EmptyArray, <<>>, 0, Length(array) - 1)
            IN  [array |-> r.a, aux |-> r.aux,
                 animations |-> r.animations, slot |-> EmptyArray,
                 timer |-> "merge"]
      [] opt = "Counting Sort" ->
            LET r == countingSort(array, <<>>)
            IN  [array |-> r.array, aux |-> EmptyArray,
                 animations |-> r.animations, slot |-> r.slot,
                 timer |-> "counting"]
      [] opt = "Quick Sort" ->
            LET r == quickSort(array, <<>>, 0, Length(array) - 1)
            IN  [array |-> r.array, aux |-> EmptyArray,
                 animations |-> r.animations, slot |-> EmptyArray,
                 timer |-> "quick"]

\* animations.reverse() before the replay interval is started
ReplayOrderUnreversed(log) == log

ReplayOrder(log) == Reverse(log)

\* OptionsComponent.onOptionClicked(index), up to the emission
OptionsOnOptionClicked(index) ==
    /\ activeOptionIndex' = index
    /\ buttonActive' = [buttonActive EXCEPT ![index] = TRUE]
    /\ buttonDisabled' =
           [i \in Buttons |-> IF i = index THEN buttonDisabled[i] ELSE TRUE]
    /\ UNCHANGED optionsArraySize

\* bins rebuilt from the array the routine has sorted
DisplayRedrawnBySort(bins, sorted) ==
    [i \in DOMAIN bins |-> [bins[i] EXCEPT !.value = sorted[i]]]

\* binDimensions across the call of a sort routine: the routines are handed
\* generatedArray (and auxiliaryArray) and push to animations; none of
\* them names binDimensions, whose bins are objects of their own
DisplayDuringSort(bins, sorted) == bins

\* what a click on option button index runs: OptionsComponent.onOptionClicked
\* and, through optionClickedSubj, the subscribers in AppComponent and
\* ArrayVisualizerComponent
OptionClickedHandlers(index) ==
    /\ OptionsOnOptionClicked(index)
    /\ optionClicked' = TRUE
    /\ LET opt == options[index + 1]
           r   == RunSort(opt, generatedArray)
       IN  /\ generatedArrayUnsorted' = getArray
           /\ validationAnimations' = <<>>
           /\ generatedArray' = r.array
           /\ auxiliaryArray' = r.aux
           /\ animations' = ReplayOrder(r.animations)
           /\ replayTimers' = [replayTimers EXCEPT ![r.timer] = @ + 1]
           /\ option' = opt
           /\ preSort' = generatedArray
           /\ recorded' = r.animations
           /\ slot' = r.slot
           /\ binDimensions' = DisplayDuringSort(binDimensions, r.array)
    /\ applied' = <<>>
    /\ phases' = <<"Sorting", "Replaying">>
    /\ validateCalls' = 0
    /\ cleared' = NoneCleared
    /\ validated' = 0
    /\ UNCHANGED <<serviceVars, scales, validationTimers,
                   restoreTimeouts, currentArraySize, call>>

onOptionClicked(index) ==
    /\ ~buttonDisabled[index]
    /\ ControlsEnabled
    /\ OptionClickedHandlers(index)

\* validate() that stops short of animateValidation()
validateNeverAnimates ==
    /\ generatedArrayUnsorted' = SortAscending(generatedArrayUnsorted)
    /\ validationAnimations' =
           Reverse(validateArray(binDimensions,
                                 SortAscending(generatedArrayUnsorted),
                                 validationAnimations))
    /\ validationTimers' = validationTimers
    /\ validateCalls' = validateCalls + 1
    /\ phases' = Append(phases, "Validating")

(***************************************************************************)
(* validate(): validateArray, validationAnimations.reverse(),              *)
(* animateValidation() which starts the validation interval.               *)
(***************************************************************************)
validate ==
    /\ generatedArrayUnsorted' = SortAscending(generatedArrayUnsorted)
    /\ validationAnimations' =
           Reverse(validateArray(binDimensions,
                                 SortAscending(generatedArrayUnsorted),
                                 validationAnimations))
    /\ validationTimers' = validationTimers + 1
    /\ validateCalls' = validateCalls + 1
    /\ phases' = Append(phases, "Validating")

(***************************************************************************)
(* The replay intervals.  A tick pops the last record of animations; with  *)
(* none left it clears its interval and calls validate().                  *)
(***************************************************************************)
\* animations.pop(): the record popped and what is left
Popped(log) == log[Len(log)]
AfterPop(log) == SubSeq(log, 1, Len(log) - 1)

\* a test that gives up while one record is left
ActionDefinedButLast(log) == Len(log) > 1

\* if (action): pop() returned a record, the log was not empty
ActionDefined(log) == log # <<>>

\* clearInterval in the else branch of a replay tick
ClearReplayNot(kind) == replayTimers

ClearReplay(kind) == [replayTimers EXCEPT ![kind] = @ - 1]

\* the else branch of the four replay ticks
ReplayExhausted(kind) ==
    /\ replayTimers' = ClearReplay(kind)
    /\ cleared' = [cleared EXCEPT !.replay = @ + 1]
    /\ validate
    /\ UNCHANGED <<serviceVars, generatedArray, auxiliaryArray, displayVars,
                   animations, restoreTimeouts, buttonVars, appVars,
                   sortHistory, applied, validated, call>>

\* what every replay tick that pops a record leaves alone
ReplayFrame ==
    UNCHANGED <<serviceVars, arrayVars, scales, validationAnimations,
                timerVars, buttonVars, appVars, sortHistory, phases,
                validateCalls, cleared, validated, call>>

bubbleSortAnimation ==
    /\ replayTimers.bubble > 0
    /\ IF ActionDefined(animations)
       THEN LET action == Popped(animations)
            IN  /\ animations' = AfterPop(animations)
                /\ binDimensions' =
                       bubbleSortAnimationMove(binDimensions, scales, action)
                /\ applied' = Append(applied, action)
                /\ ReplayFrame
       ELSE ReplayExhausted("bubble")

animateMergeSort ==
    /\ replayTimers.merge > 0
    /\ IF ActionDefined(animations)
       THEN LET action == Popped(animations)
            IN  /\ animations' = AfterPop(animations)
                /\ binDimensions' =
                       animateMergeSortMove(binDimensions, scales, action)
                /\ applied' = Append(applied, action)
                /\ ReplayFrame
       ELSE ReplayExhausted("merge")

animateCountingSort ==
    /\ replayTimers.counting > 0
    /\ IF ActionDefined(animations)
       THEN LET action == Popped(animations)
            IN  /\ animations' = AfterPop(animations)
                /\ binDimensions' =
                       animateCountingSortMove(binDimensions, scales, action)
                /\ applied' = Append(applied, action)
                /\ ReplayFrame
       ELSE ReplayExhausted("counting")

animateQuickSort ==
    /\ replayTimers.quick > 0
    /\ IF ActionDefined(animations)
       THEN LET action == Popped(animations)
            IN  /\ animations' = AfterPop(animations)
                /\ binDimensions' =
                       animateQuickSortMove(binDimensions, scales, action)
                /\ applied' = Append(applied, action)
                /\ ReplayFrame
       ELSE ReplayExhausted("quick")

(***************************************************************************)
(* The validation interval and the colour-restoring timeouts.  A timeout   *)
(* set by one tick is due when the next tick is, so the two may run in     *)
(* either order; it is due a whole period before the tick after that one,  *)
(* which therefore finds at most the previous tick's timeout pending.      *)
(***************************************************************************)
\* the validatedSubj subscribers of OptionsComponent and AppComponent
onValidated ==
    /\ buttonActive' =
           [i \in Buttons |->
               IF i = activeOptionIndex THEN FALSE ELSE buttonActive[i]]
    /\ buttonDisabled' =
           [i \in Buttons |->
               IF i = 0 /\ optionsArraySize > BubbleSortLimit THEN TRUE
               ELSE IF i = activeOptionIndex THEN buttonDisabled[i]
               ELSE FALSE]
    /\ optionClicked' = FALSE
    /\ UNCHANGED <<activeOptionIndex, optionsArraySize, currentArraySize>>

\* clearInterval in the else branch of the validation tick
ClearValidationNot == validationTimers

ClearValidation == validationTimers - 1

animateValidation ==
    /\ validationTimers > 0
    /\ Len(restoreTimeouts) <= 1
    /\ IF ActionDefined(validationAnimations)
       THEN LET action == Popped(validationAnimations)
            IN  /\ validationAnimations' = AfterPop(validationAnimations)
                /\ binDimensions' =
                       [binDimensions EXCEPT ![action.index].color = Green]
                /\ restoreTimeouts' = Append(restoreTimeouts, action)
                /\ UNCHANGED <<serviceVars, arrayVars, scales, animations,
                               replayTimers, validationTimers, buttonVars,
                               appVars, sortHistory, runHistory, call>>
       ELSE /\ validationTimers' = ClearValidation
            /\ cleared' = [cleared EXCEPT !.validation = @ + 1]
            /\ onValidated
            /\ validated' = validated + 1
            /\ phases' = Append(phases, "Idle")
            /\ UNCHANGED <<serviceVars, arrayVars, displayVars, logVars,
                           replayTimers, restoreTimeouts, sortHistory,
                           applied, validateCalls, call>>

\* the setTimeout callback of a validation tick; on a bin that no longer
\* exists the assignment throws and changes nothing
restoreColor ==
    /\ restoreTimeouts # <<>>
    /\ LET action == Head(restoreTimeouts)
       IN  binDimensions' =
               IF action.index \in DOMAIN binDimensions
               THEN [binDimensions EXCEPT
                        ![action.index].color = action.originalColor]
               ELSE binDimensions
    /\ restoreTimeouts' = Tail(restoreTimeouts)
    /\ UNCHANGED <<serviceVars, arrayVars, scales, logVars, replayTimers,
                   validationTimers, buttonVars, appVars, sortHistory,
                   runHistory, call>>

Next ==
    \/ onGenerateArray
    \/ \E size \in 0..MaxLen : onRangeChange(size)
    \/ \E index \in Buttons : onOptionClicked(index)
    \/ bubbleSortAnimation
    \/ animateMergeSort
    \/ animateCountingSort
    \/ animateQuickSort
    \/ animateValidation
    \/ restoreColor

Spec == Init /\ [][Next]_vars

(***************************************************************************)
(* The timers of the browser.  An interval set by setInterval fires again  *)
(* and again until it is cleared, and a timeout set by setTimeout fires    *)
(* once it is due: a tick or a colour restore that stays enabled is        *)
(* eventually run.  Clicks and array generations are up to the user.       *)
(***************************************************************************)
TimersFire ==
    /\ WF_vars(bubbleSortAnimation)
    /\ WF_vars(animateMergeSort)
    /\ WF_vars(animateCountingSort)
    /\ WF_vars(animateQuickSort)
    /\ WF_vars(animateValidation)
    /\ WF_vars(restoreColor)

SpecFair == Spec /\ TimersFire

(***************************************************************************)
(* The option buttons as OptionsComponent leaves them.  A button answers a *)
(* click unless it carries the disabled attribute, which is all the        *)
(* component ever sets to stop one; the generate button and the slider are *)
(* left alone.  MaxTimers caps the intervals running at once.              *)
(***************************************************************************)
MaxTimers == 2

TimersRunning ==
    replayTimers.bubble + replayTimers.merge + replayTimers.counting
        + replayTimers.quick + validationTimers

optionButtonClicked(index) ==
    /\ ~buttonDisabled[index]
    /\ TimersRunning < MaxTimers
    /\ OptionClickedHandlers(index)

NextButtons ==
    \/ \E index \in Buttons : optionButtonClicked(index)
    \/ bubbleSortAnimation
    \/ animateMergeSort
    \/ animateCountingSort
    \/ animateQuickSort
    \/ animateValidation
    \/ restoreColor

\* the size of the array the buttons are clicked on
ButtonsLen == 2

InitButtons ==
    /\ \E array \in GeneratableArrays(ButtonsLen) : Constructed(array)
    /\ generatedArrayUnsorted = EmptyArray
    /\ call = NoCall

SpecButtons == InitButtons /\ [][NextButtons]_vars

(***************************************************************************)
(* The sort routines on their own: every array of a wider domain than the  *)
(* one the whole component is explored with, handed to onOptionClicked.    *)
(***************************************************************************)
SortMaxLen == MaxLen + 1
SortMaxVal == MaxVal + 1

SortInputs == UNION {Arrays(n, 0..SortMaxVal) : n \in 0..SortMaxLen}

InitSort ==
    /\ \E array \in SortInputs : Constructed(array)
    /\ generatedArrayUnsorted = EmptyArray
    /\ call = NoCall

NextSort == \E index \in Buttons : onOptionClicked(index)

SpecSort == InitSort /\ [][NextSort]_vars

(***************************************************************************)
(* A sort routine called twice, each time on a copy of the same input.     *)
(* The Move Log is emptied before each call, as onOptionClicked does; the  *)
(* buffer mergeSort is handed holds whatever an earlier use left in it.    *)
(***************************************************************************)
\* the routine of an option, called on array with the buffer aux and the
\* log animations
SortRoutine(opt, array, aux, log) ==
    CASE opt = "Bubble Sort" ->
            LET r == bubbleSort(array, log)
            IN  [array |-> r.array, aux |-> aux, animations |-> r.animations]
      [] opt = "Merge Sort" ->
            LET r == mergeSort(array, aux, log, 0, Length(array) - 1)
            IN  [array |-> r.a, aux |-> r.aux, animations |-> r.animations]
      [] opt = "Counting Sort" ->
            LET r == countingSort(array, log)
            IN  [array |-> r.array, aux |-> aux, animations |-> r.animations]
      [] opt = "Quick Sort" ->
            LET r == quickSort(array, log, 0, Length(array) - 1)
            IN  [array |-> r.array, aux |-> aux, animations |-> r.animations]

\* what the buffer may hold when a routine is called on array: nothing, or
\* one value at every index of the array
StaleBuffers(array) ==
    {EmptyArray} \cup {[i \in DOMAIN array |-> v] : v \in 0..SortMaxVal}

InitSortCopies ==
    /\ \E array \in SortInputs : Constructed(array)
    /\ generatedArrayUnsorted = EmptyArray
    /\ \E index \in Buttons :
           call = [routine |-> "sortCopy", option |-> options[index + 1],
                   buffers |-> <<>>, runs |-> <<>>]

sortCopy ==
    /\ call.routine = "sortCopy"
    /\ Len(call.runs) < 2
    /\ \E buffer \in StaleBuffers(preSort) :
           LET r == SortRoutine(call.option, preSort, buffer, <<>>)
           IN  /\ generatedArray' = r.array
               /\ auxiliaryArray' = r.aux
               /\ animations' = r.animations
               /\ call' = [call EXCEPT
                               !.buffers = Append(@, buffer),
                               !.runs = Append(@, [array |-> r.array,
                                                   animations |-> r.animations])]
    /\ UNCHANGED <<serviceVars, generatedArrayUnsorted, displayVars,
                   validationAnimations, timerVars, buttonVars, appVars,
                   sortHistory, runHistory>>

SpecSortCopies == InitSortCopies /\ [][sortCopy]_vars

(***************************************************************************)
(* partition(array, lo, hi) on its own, for every array and every range    *)
(* lo < hi of its indices.                                                 *)
(***************************************************************************)
InitPartition ==
    /\ \E array \in SortInputs :
           /\ Constructed(array)
           /\ \E lo, hi \in DOMAIN array :
                  /\ lo < hi
                  /\ call = [routine |-> "partition", lo |-> lo, hi |-> hi,
                             returned |-> FALSE, start |-> -1,
                             result |-> -1]
    /\ generatedArrayUnsorted = EmptyArray

partitionCall ==
    /\ call.routine = "partition"
    /\ ~call.returned
    /\ LET r == partition(generatedArray, animations, call.lo, call.hi)
       IN  /\ generatedArray' = r.array
           /\ animations' = r.animations
           /\ recorded' = r.animations
           /\ call' = [call EXCEPT !.returned = TRUE, !.start = r.start,
                                   !.result = r.end]
    /\ preSort' = generatedArray
    /\ UNCHANGED <<serviceVars, generatedArrayUnsorted, auxiliaryArray,
                   displayVars, validationAnimations, timerVars, buttonVars,
                   appVars, option, slot, runHistory>>

SpecPartition == InitPartition /\ [][partitionCall]_vars

(***************************************************************************)
(* bubbleSort pass by pass: one step is one iteration of its loop, the     *)
(* call bubble(array, 0, i).                                               *)
(***************************************************************************)
InitBubbleSort ==
    /\ \E array \in SortInputs : Constructed(array)
    /\ generatedArrayUnsorted = EmptyArray
    /\ call = [routine |-> "bubbleSort", i |-> Length(generatedArray) - 1,
               pass |-> -1, before |-> generatedArray, logBefore |-> 0]

\* for (let i = array.length - 1; i > 0; i--) { this.bubble(array, 0, i); }
bubblePass ==
    /\ call.routine = "bubbleSort"
    /\ call.i > 0
    /\ LET r == bubble(generatedArray, animations, 0, call.i)
       IN  /\ generatedArray' = r.array
           /\ animations' = r.animations
           /\ recorded' = r.animations
    /\ call' = [call EXCEPT !.i = @ - 1, !.pass = call.i,
                            !.before = generatedArray,
                            !.logBefore = Len(animations)]
    /\ UNCHANGED <<serviceVars, generatedArrayUnsorted, auxiliaryArray,
                   displayVars, validationAnimations, timerVars, buttonVars,
                   appVars, option, preSort, slot, runHistory>>

SpecBubbleSort == InitBubbleSort /\ [][bubblePass]_vars

(***************************************************************************)
(* mergeSort call by call.  The calls still to be made are kept as a stack *)
(* of frames, the next one on top: a call mergeSort(a, aux, lo, hi) with   *)
(* lo < hi puts its three calls there, mergeSort on the left half,         *)
(* mergeSort on the right half and merge.  origin[k] is the index at which *)
(* the element now at a[k] stood in the input.                             *)
(***************************************************************************)
MergeSortFrame(lo, hi) ==
    [op |-> "mergeSort", lo |-> lo, mid |-> MergeMid(lo, hi), hi |-> hi]

MergeFrame(lo, hi) ==
    [op |-> "merge", lo |-> lo, mid |-> MergeMid(lo, hi), hi |-> hi]

NoMerge == [lo |-> 0, mid |-> 0, hi |-> -1, before |-> EmptyArray,
            logBefore |-> 0, sources |-> EmptyArray]

InitMergeSort ==
    /\ \E array \in SortInputs : Constructed(array)
    /\ generatedArrayUnsorted = EmptyArray
    /\ call = [routine |-> "mergeSort",
               stack |-> <<MergeSortFrame(0, Length(generatedArray) - 1)>>,
               origin |-> [k \in DOMAIN generatedArray |-> k],
               merges |-> 0,
               last |-> NoMerge]

mergeSortCall ==
    /\ call.routine = "mergeSort"
    /\ call.stack # <<>>
    /\ LET frame == Head(call.stack)
       IN  IF frame.op = "mergeSort"
           THEN /\ call' = [call EXCEPT
                                !.stack =
                                    IF frame.hi <= frame.lo
                                    THEN Tail(@)
                                    ELSE <<MergeSortFrame(frame.lo, frame.mid),
                                           MergeSortFrame(frame.mid + 1,
                                                          frame.hi),
                                           MergeFrame(frame.lo, frame.hi)>>
                                             \o Tail(@)]
                /\ UNCHANGED <<generatedArray, auxiliaryArray, animations,
                               recorded>>
           ELSE LET r == merge(generatedArray, auxiliaryArray, animations,
                               frame.lo, frame.mid, frame.hi)
                    sources == MergeSources(r.aux, frame.lo, frame.mid + 1,
                                            frame.lo, frame.mid, frame.hi,
                                            EmptyArray)
                IN  /\ generatedArray' = r.a
                    /\ auxiliaryArray' = r.aux
                    /\ animations' = r.animations
                    /\ recorded' = r.animations
                    /\ call' = [call EXCEPT
                                    !.stack = Tail(@),
                                    !.origin =
                                        [k \in DOMAIN @ |->
                                            IF k \in DOMAIN sources
                                            THEN @[sources[k]]
                                            ELSE @[k]],
                                    !.merges = @ + 1,
                                    !.last =
                                        [lo |-> frame.lo, mid |-> frame.mid,
                                         hi |-> frame.hi,
                                         before |-> generatedArray,
                                         logBefore |-> Len(animations),
                                         sources |-> sources]]
    /\ UNCHANGED <<serviceVars, generatedArrayUnsorted, displayVars,
                   validationAnimations, timerVars, buttonVars, appVars,
                   option, preSort, slot, runHistory>>

SpecMergeSort == InitMergeSort /\ [][mergeSortCall]_vars

(***************************************************************************)
(* merge called on its own: any array, any lo <= mid < hi in it, the two   *)
(* sub-runs sorted or not, the buffer holding anything.                    *)
(***************************************************************************)
InitMerge ==
    /\ \E array \in SortInputs :
           /\ Constructed(array)
           /\ \E lo, mid, hi \in DOMAIN array :
                  /\ lo <= mid
                  /\ mid < hi
                  /\ call = [routine |-> "merge", lo |-> lo, mid |-> mid,
                             hi |-> hi, returned |-> FALSE]
    /\ generatedArrayUnsorted = EmptyArray

mergeCall ==
    /\ call.routine = "merge"
    /\ ~call.returned
    /\ \E buffer \in StaleBuffers(generatedArray) :
           LET r == merge(generatedArray, buffer, animations,
                          call.lo, call.mid, call.hi)
           IN  /\ generatedArray' = r.a
               /\ auxiliaryArray' = r.aux
               /\ animations' = r.animations
               /\ recorded' = r.animations
    /\ call' = [call EXCEPT !.returned = TRUE]
    /\ UNCHANGED <<serviceVars, generatedArrayUnsorted, displayVars,
                   validationAnimations, timerVars, buttonVars, appVars,
                   option, preSort, slot, runHistory>>

SpecMerge == InitMerge /\ [][mergeCall]_vars

(***************************************************************************)
(* quickSort call by call.  The calls still to be made are kept as a       *)
(* stack of frames, the next one on top, which is the order the recursion  *)
(* makes them in: the whole left sub-range before the right one.  A frame  *)
(* carries the range of the call that made it and the index p that call's  *)
(* partition returned.                                                     *)
(***************************************************************************)
\* sub-ranges that keep the pivot's index in the right one
QuickSortSubRangesWithPivot(lo, hi, p) ==
    <<[lo |-> lo, hi |-> p - 1], [lo |-> p, hi |-> hi]>>

\* the ranges of the two recursive calls of quickSort(array, lo, hi), p the
\* index partition returned
QuickSortSubRanges(lo, hi, p) ==
    <<[lo |-> lo, hi |-> p - 1], [lo |-> p + 1, hi |-> hi]>>

QuickSortFrame(range, parent, p) ==
    [lo |-> range.lo, hi |-> range.hi, root |-> FALSE,
     parentLo |-> parent.lo, parentHi |-> parent.hi, p |-> p]

InitQuickSort ==
    /\ \E array \in SortInputs : Constructed(array)
    /\ generatedArrayUnsorted = EmptyArray
    /\ call = [routine |-> "quickSort", calls |-> 0,
               stack |-> <<[lo |-> 0, hi |-> Length(generatedArray) - 1,
                            root |-> TRUE, parentLo |-> 0,
                            parentHi |-> Length(generatedArray) - 1,
                            p |-> -1]>>]

\* the call on top of the stack: it returns at once when lo >= hi, else it
\* partitions its range and makes its two recursive calls
quickSortCall ==
    /\ call.routine = "quickSort"
    /\ call.stack # <<>>
    /\ LET frame == Head(call.stack)
       IN  IF frame.lo >= frame.hi
           THEN /\ call' = [call EXCEPT !.stack = Tail(@), !.calls = @ + 1]
                /\ UNCHANGED <<generatedArray, animations, recorded>>
           ELSE LET r == partition(generatedArray, animations,
                                   frame.lo, frame.hi)
                    sub == QuickSortSubRanges(frame.lo, frame.hi, r.end)
                IN  /\ generatedArray' = r.array
                    /\ animations' = r.animations
                    /\ recorded' = r.animations
                    /\ call' = [call EXCEPT
                                    !.calls = @ + 1,
                                    !.stack =
                                        <<QuickSortFrame(sub[1], frame, r.end),
                                          QuickSortFrame(sub[2], frame, r.end)>>
                                            \o Tail(@)]
    /\ UNCHANGED <<serviceVars, generatedArrayUnsorted, auxiliaryArray,
                   displayVars, validationAnimations, timerVars, buttonVars,
                   appVars, option, preSort, slot, runHistory>>

\* a call that has been made runs to its end
SpecQuickSort ==
    InitQuickSort /\ [][quickSortCall]_vars /\ WF_vars(quickSortCall)

(***************************************************************************)
(* validateArray() on its own, for every Display State and every retained  *)
(* copy of the same length.                                                *)
(***************************************************************************)
InitValidateArray ==
    \E n \in 0..MaxLen :
        \E shown \in GeneratableArrays(n), retained \in GeneratableArrays(n) :
            /\ Constructed(shown)
            /\ generatedArrayUnsorted = retained
            /\ call = [routine |-> "validateArray", returned |-> FALSE]

validateArrayCall ==
    /\ call.routine = "validateArray"
    /\ ~call.returned
    /\ generatedArrayUnsorted' = SortAscending(generatedArrayUnsorted)
    /\ validationAnimations' =
           validateArray(binDimensions, SortAscending(generatedArrayUnsorted),
                         validationAnimations)
    /\ call' = [call EXCEPT !.returned = TRUE]
    /\ UNCHANGED <<serviceVars, generatedArray, auxiliaryArray, displayVars,
                   animations, timerVars, buttonVars, appVars, sortHistory,
                   runHistory>>

SpecValidateArray == InitValidateArray /\ [][validateArrayCall]_vars

(***************************************************************************)
(* Bubble Sort, Merge Sort and Quick Sort one loop iteration at a time.    *)
(* What is still to be done is kept as a stack of frames, the next one on  *)
(* top: a loop in progress with its cursors, or a call still to be made.   *)
(* A step runs one iteration of the innermost loop, which mutates the      *)
(* Working Array at most once, or makes one call.                          *)
(***************************************************************************)
StepOptions == {"Bubble Sort", "Merge Sort", "Quick Sort"}

\* the call onOptionClicked makes for an option
FirstFrame(opt, array) ==
    CASE opt = "Bubble Sort" ->
            [op |-> "bubbleSort", i |-> Length(array) - 1]
      [] opt = "Merge Sort" ->
            [op |-> "mergeSort", lo |-> 0, hi |-> Length(array) - 1]
      [] opt = "Quick Sort" ->
            [op |-> "quickSort", lo |-> 0, hi |-> Length(array) - 1]

InitSteps ==
    /\ \E array \in SortInputs : Constructed(array)
    /\ generatedArrayUnsorted = EmptyArray
    /\ \E opt \in StepOptions :
           call = [routine |-> "steps", option |-> opt,
                   stack |-> <<FirstFrame(opt, generatedArray)>>]

StepsFrame ==
    UNCHANGED <<serviceVars, generatedArrayUnsorted, displayVars,
                validationAnimations, timerVars, buttonVars, appVars,
                option, preSort, slot, runHistory>>

\* bubbleSort's loop makes the call bubble(array, 0, i); bubble's loop runs
\* one iteration, which is what bubble(array, i, i + 1) does
bubbleStep ==
    /\ call.routine = "steps"
    /\ call.stack # <<>>
    /\ Head(call.stack).op \in {"bubbleSort", "bubble"}
    /\ LET frame == Head(call.stack)
       IN  IF frame.op = "bubbleSort"
           THEN /\ call' = [call EXCEPT
                                !.stack =
                                    IF frame.i > 0
                                    THEN <<[op |-> "bubble", i |-> 0,
                                            hi |-> frame.i],
                                           [op |-> "bubbleSort",
                                            i |-> frame.i - 1]>> \o Tail(@)
                                    ELSE Tail(@)]
                /\ UNCHANGED <<generatedArray, animations, recorded>>
           ELSE IF frame.i < frame.hi
           THEN LET r == bubble(generatedArray, animations,
                                frame.i, frame.i + 1)
                IN  /\ generatedArray' = r.array
                    /\ animations' = r.animations
                    /\ recorded' = r.animations
                    /\ call' = [call EXCEPT
                                    !.stack = <<[frame EXCEPT !.i = @ + 1]>>
                                                  \o Tail(@)]
           ELSE /\ call' = [call EXCEPT !.stack = Tail(@)]
                /\ UNCHANGED <<generatedArray, animations, recorded>>
    /\ UNCHANGED auxiliaryArray
    /\ StepsFrame

\* mergeSort makes its three calls; merge copies a[lo..hi] to aux and sets
\* its cursors; merge's loop runs one iteration
mergeStep ==
    /\ call.routine = "steps"
    /\ call.stack # <<>>
    /\ Head(call.stack).op \in {"mergeSort", "merge", "mergeLoop"}
    /\ LET frame == Head(call.stack)
       IN  CASE frame.op = "mergeSort" ->
                   /\ call' = [call EXCEPT
                                   !.stack =
                                       IF frame.hi <= frame.lo
                                       THEN Tail(@)
                                       ELSE LET mid ==
                                                    MergeMid(frame.lo, frame.hi)
                                            IN  <<[op |-> "mergeSort",
                                                   lo |-> frame.lo,
                                                   hi |-> mid],
                                                  [op |-> "mergeSort",
                                                   lo |-> mid + 1,
                                                   hi |-> frame.hi],
                                                  [op |-> "merge",
                                                   lo |-> frame.lo,
                                                   mid |-> mid,
                                                   hi |-> frame.hi]>>
                                                    \o Tail(@)]
                   /\ UNCHANGED <<generatedArray, auxiliaryArray, animations,
                                  recorded>>
             [] frame.op = "merge" ->
                   /\ auxiliaryArray' = MergeCopy(generatedArray,
                                                  auxiliaryArray,
                                                  frame.lo, frame.hi)
                   /\ call' = [call EXCEPT
                                   !.stack =
                                       <<[op |-> "mergeLoop", i |-> frame.lo,
                                          j |-> frame.mid + 1, k |-> frame.lo,
                                          mid |-> frame.mid,
                                          hi |-> frame.hi]>> \o Tail(@)]
                   /\ UNCHANGED <<generatedArray, animations, recorded>>
             [] frame.op = "mergeLoop" ->
                   IF frame.k <= frame.hi
                   THEN LET r == MergeIteration(generatedArray,
                                                auxiliaryArray, animations,
                                                frame.i, frame.j, frame.k,
                                                frame.mid, frame.hi)
                        IN  /\ generatedArray' = r.a
                            /\ animations' = r.animations
                            /\ recorded' = r.animations
                            /\ call' = [call EXCEPT
                                            !.stack =
                                                <<[frame EXCEPT
                                                       !.i = r.i, !.j = r.j,
                                                       !.k = @ + 1]>>
                                                    \o Tail(@)]
                            /\ UNCHANGED auxiliaryArray
                   ELSE /\ call' = [call EXCEPT !.stack = Tail(@)]
                        /\ UNCHANGED <<generatedArray, auxiliaryArray,
                                       animations, recorded>>
    /\ StepsFrame

\* quickSort calls partition; partition's loop runs one iteration; after
\* the loop partition places the pivot and quickSort makes its two calls
quickStep ==
    /\ call.routine = "steps"
    /\ call.stack # <<>>
    /\ Head(call.stack).op \in {"quickSort", "partitionLoop", "placePivot"}
    /\ LET frame == Head(call.stack)
       IN  CASE frame.op = "quickSort" ->
                   /\ call' = [call EXCEPT
                                   !.stack =
                                       IF frame.lo >= frame.hi
                                       THEN Tail(@)
                                       ELSE <<[op |-> "partitionLoop",
                                               lo |-> frame.lo,
                                               hi |-> frame.hi,
                                               pivot |->
                                                   generatedArray[frame.lo],
                                               start |-> frame.lo,
                                               end |-> frame.hi]>>
                                                \o Tail(@)]
                   /\ UNCHANGED <<generatedArray, animations, recorded>>
             [] frame.op = "partitionLoop" ->
                   LET r == PartitionIteration(generatedArray, animations,
                                               frame.pivot, frame.start,
                                               frame.end, frame.hi)
                   IN  /\ generatedArray' = r.array
                       /\ animations' = r.animations
                       /\ recorded' = r.animations
                       /\ call' = [call EXCEPT
                                       !.stack =
                                           <<IF r.broke
                                             THEN [op |-> "placePivot",
                                                   lo |-> frame.lo,
                                                   hi |-> frame.hi,
                                                   end |-> r.end]
                                             ELSE [frame EXCEPT
                                                       !.start = r.start,
                                                       !.end = r.end]>>
                                               \o Tail(@)]
             [] frame.op = "placePivot" ->
                   LET r == PlacePivot(generatedArray, animations,
                                       frame.lo, frame.end)
                       sub == QuickSortSubRanges(frame.lo, frame.hi,
                                                 frame.end)
                   IN  /\ generatedArray' = r.array
                       /\ animations' = r.animations
                       /\ recorded' = r.animations
                       /\ call' = [call EXCEPT
                                       !.stack =
                                           <<[op |-> "quickSort",
                                              lo |-> sub[1].lo,
                                              hi |-> sub[1].hi],
                                             [op |-> "quickSort",
                                              lo |-> sub[2].lo,
                                              hi |-> sub[2].hi]>>
                                               \o Tail(@)]
    /\ UNCHANGED auxiliaryArray
    /\ StepsFrame

NextSteps ==
    \/ bubbleStep
    \/ mergeStep
    \/ quickStep

SpecSteps == InitSteps /\ [][NextSteps]_vars

(***************************************************************************)
(* CounterService and the counts AppComponent displays.  The service keeps *)
(* two counters and two subjects; AppComponent subscribes to both subjects *)
(* and resets both counts when an option is clicked.  MaxCount caps the    *)
(* counters.                                                               *)
(***************************************************************************)
MaxCount == 3

NothingEmitted == [subject |-> "none", count |-> 0]

InitCounters ==
    /\ \E array \in GeneratableArrays(DefaultSize) : Constructed(array)
    /\ generatedArrayUnsorted = EmptyArray
    /\ call = [routine |-> "counters",
               numberOfComparisons |-> 0,
               numberOfArrayAccess |-> 0,
               comparisonCount |-> 0,
               arrayAccessCount |-> 0,
               emitted |-> NothingEmitted]

CountersFrame ==
    UNCHANGED <<serviceVars, arrayVars, displayVars, logVars, timerVars,
                buttonVars, currentArraySize, sortHistory, runHistory>>

incrementComparisonCount ==
    /\ call.routine = "counters"
    /\ call.numberOfComparisons < MaxCount
    /\ call' = [call EXCEPT !.numberOfComparisons = @ + 1,
                            !.emitted = NothingEmitted]
    /\ UNCHANGED optionClicked
    /\ CountersFrame

incrementArrayAccessCount ==
    /\ call.routine = "counters"
    /\ call.numberOfArrayAccess < MaxCount
    /\ call' = [call EXCEPT !.numberOfArrayAccess = @ + 1,
                            !.emitted = NothingEmitted]
    /\ UNCHANGED optionClicked
    /\ CountersFrame

\* updateArrayAccessCountSubj.next(newCount) and its subscriber
updateArrayAccessCount(newCount) ==
    /\ call.routine = "counters"
    /\ call' = [call EXCEPT !.arrayAccessCount = newCount,
                            !.emitted = [subject |-> "arrayAccess",
                                         count |-> newCount]]
    /\ UNCHANGED optionClicked
    /\ CountersFrame

\* updateComparisonCountSubj.next(newCount) and its subscriber
updateComparisonCount(newCount) ==
    /\ call.routine = "counters"
    /\ call' = [call EXCEPT !.comparisonCount = call.comparisonCount,
                            !.emitted = [subject |-> "comparison",
                                         count |-> newCount]]
    /\ UNCHANGED optionClicked
    /\ CountersFrame

\* the optionClickedSubj subscriber of AppComponent
appOptionClicked ==
    /\ call.routine = "counters"
    /\ call' = [call EXCEPT !.numberOfComparisons = 0,
                            !.numberOfArrayAccess = 0,
                            !.comparisonCount = 0,
                            !.arrayAccessCount = 0,
                            !.emitted = NothingEmitted]
    /\ optionClicked' = TRUE
    /\ CountersFrame

\* the validatedSubj subscriber of AppComponent
appValidated ==
    /\ call.routine = "counters"
    /\ optionClicked
    /\ optionClicked' = FALSE
    /\ call' = [call EXCEPT !.emitted = NothingEmitted]
    /\ CountersFrame

NextCounters ==
    \/ incrementComparisonCount
    \/ incrementArrayAccessCount
    \/ \E newCount \in 0..MaxCount : updateArrayAccessCount(newCount)
    \/ \E newCount \in 0..MaxCount : updateComparisonCount(newCount)
    \/ appOptionClicked
    \/ appValidated

SpecCounters == InitCounters /\ [][NextCounters]_vars

(***************************************************************************)
(* Properties.                                                             *)
(***************************************************************************)
\* a run was started since the array was generated
RunStarted == option # "none"

\* the run's replay has ended: its interval found the log empty
ReplayEnded == RunStarted /\ cleared.replay > 0

\* the run has finished: it emitted validatedSubj
RunFinished == RunStarted /\ validated > 0

\* the Move Player's handling of one record, by the option of the run
PlayMove(opt, bins, scale, action) ==
    CASE opt = "Bubble Sort"   -> bubbleSortAnimationMove(bins, scale, action)
      [] opt = "Merge Sort"    -> animateMergeSortMove(bins, scale, action)
      [] opt = "Counting Sort" -> animateCountingSortMove(bins, scale, action)
      [] opt = "Quick Sort"    -> animateQuickSortMove(bins, scale, action)

\* the records log[k..] played in order
RECURSIVE PlayLog(_, _, _, _, _)
PlayLog(opt, bins, scale, log, k) ==
    IF k > Len(log)
    THEN bins
    ELSE PlayLog(opt, PlayMove(opt, bins, scale, log[k]), scale, log, k + 1)

\* C1: for each of the four algorithms and every input array, the complete
\* Move Log played in recording order on a copy of the array as it stood
\* before the sort yields, index by index, the reference ascending sort of
\* the input.
C1_LogReplaysToReferenceSort ==
    RunStarted =>
        DisplayValues(PlayLog(option,
                              calculateBinDimensions(preSort, scales),
                              scales, recorded, 1))
            = SortAscending(preSort)

C1_Witness ==
    /\ option = "Quick Sort"
    /\ Len(recorded) >= 3
    /\ \E k \in 1..Len(recorded) : recorded[k].name = "swap-element"
    /\ ~IsSortedAscending(preSort)
    /\ Length(preSort) = SortMaxLen

\* C2: for each of the four algorithms and every input array, when the sort
\* routine returns the Working Array is sorted ascending and is a permutation
\* of the input array.
C2_SortedPermutationOfInput ==
    RunStarted =>
        /\ IsSortedAscending(generatedArray)
        /\ IsPermutationOf(generatedArray, preSort)

C2_Witness ==
    /\ option = "Merge Sort"
    /\ Length(preSort) = SortMaxLen
    /\ \E i, j \in DOMAIN preSort : i < j /\ preSort[i] > preSort[j]
    /\ \E i, j \in DOMAIN preSort : i < j /\ preSort[i] = preSort[j]
    /\ generatedArray # preSort

\* C3: for each of the four algorithms, a run on an array of length 0 or 1
\* records no moves and leaves the array unchanged.
C3_DegenerateInputRecordsNothing ==
    (RunStarted /\ Length(preSort) <= 1) =>
        /\ recorded = <<>>
        /\ generatedArray = preSort

\* C4: Counting Sort is stable: of two input positions i < j that hold equal
\* keys, the one at i is assigned the lower output slot.
C4_CountingSortStable ==
    option = "Counting Sort" =>
        \A i, j \in DOMAIN preSort :
            (i < j /\ preSort[i] = preSort[j]) => slot[i] < slot[j]

C4_Witness ==
    /\ option = "Counting Sort"
    /\ \E i, j \in DOMAIN preSort :
           /\ i < j
           /\ preSort[i] = preSort[j]
           /\ \E x \in DOMAIN preSort : i < x /\ x < j /\ preSort[x] < preSort[i]
           /\ slot[i] + 1 = slot[j]
           /\ slot[i] # i

\* C5: for every array and every range lo < hi of valid indices, after
\* partition(array, lo, hi) returns p: lo <= p <= hi, every element of
\* [lo, p-1] is <= array[p], every element of [p+1, hi] is >= array[p], and
\* array[p] is the value that was at array[lo] on entry.
C5_PartitionPostcondition ==
    (call.routine = "partition" /\ call.returned) =>
        LET p == call.result
        IN  /\ call.lo <= p
            /\ p <= call.hi
            /\ \A x \in call.lo..(p - 1) : generatedArray[x] <= generatedArray[p]
            /\ \A x \in (p + 1)..call.hi : generatedArray[x] >= generatedArray[p]
            /\ generatedArray[p] = preSort[call.lo]

C5_Witness ==
    /\ call.routine = "partition"
    /\ call.returned
    /\ call.lo > 0
    /\ call.lo < call.result
    /\ call.result < call.hi
    /\ \E k \in 1..Len(recorded) : recorded[k].name = "swap-element"

\* the first index at which the Display State differs from the reference
\* sort, the length of the array when there is none
FirstMismatch(bins, sorted) ==
    LET differing == {i \in DOMAIN sorted : bins[i].value # sorted[i]}
    IN  IF differing = {}
        THEN Length(sorted)
        ELSE CHOOSE i \in differing : \A x \in differing : i <= x

\* C6: validateArray records Validation Records for exactly the indices of
\* the longest prefix on which the Display State equals the reference sort:
\* every index when there is no mismatch, exactly 0..k-1 when the first
\* mismatch is at k, also where later indices match again.
C6_ValidatesLongestMatchingPrefix ==
    (call.routine = "validateArray" /\ call.returned) =>
        LET k == FirstMismatch(binDimensions, generatedArrayUnsorted)
        IN  /\ Len(validationAnimations) = k
            /\ \A x \in 1..k :
                   /\ validationAnimations[x].index = x - 1
                   /\ validationAnimations[x].originalColor
                          = binDimensions[x - 1].color

C6_Witness ==
    /\ call.routine = "validateArray"
    /\ call.returned
    /\ Len(validationAnimations) = 1
    /\ Length(generatedArrayUnsorted) >= 3
    /\ binDimensions[1].value # generatedArrayUnsorted[1]
    /\ binDimensions[2].value = generatedArrayUnsorted[2]

\* C7: the Move Player applies moves in recording order: the k-th replay
\* tick that applies a move applies the k-th record the sort routine
\* emitted, and by the end of the replay it has applied all of them.
C7_ReplayInRecordingOrder ==
    RunStarted =>
        /\ Len(applied) <= Len(recorded)
        /\ \A k \in 1..Len(applied) : applied[k] = recorded[k]
        /\ ReplayEnded => applied = recorded

C7_Witness ==
    /\ ReplayEnded
    /\ Len(recorded) >= 3
    /\ recorded[1] # recorded[Len(recorded)]
    /\ applied = recorded

PhaseOrder == <<"Sorting", "Replaying", "Validating", "Idle">>

C9_ValidatedOncePerRun ==
    /\ validated <= 1
    /\ (RunStarted /\ Idle) => validated = 1
    /\ (RunStarted /\ ~Idle) => validated = 0
    /\ ~RunStarted => validated = 0

C9_Witness ==
    /\ RunStarted
    /\ Idle
    /\ validated = 1
    /\ Len(recorded) >= 1
    /\ restoreTimeouts = <<>>

\* the step stays within the run in progress: it neither starts a run nor
\* generates a new array
WithinRun == RunStarted /\ Len(phases') >= Len(phases)

\* what a step of a run does to the two logs and the two intervals
C10_TickDiscipline ==
    /\ Len(animations') >= Len(animations) - 1
    /\ Len(validationAnimations') >= Len(validationAnimations) - 1
    /\ Len(animations') < Len(animations) =>
           /\ animations' = AfterPop(animations)
           /\ applied' = Append(applied, Popped(animations))
           /\ binDimensions' =
                  PlayMove(option, binDimensions, scales, Popped(animations))
           /\ cleared' = cleared
    /\ Len(validationAnimations') < Len(validationAnimations) =>
           /\ validationAnimations' = AfterPop(validationAnimations)
           /\ binDimensions'[Popped(validationAnimations).index].color = Green
           /\ restoreTimeouts' =
                  Append(restoreTimeouts, Popped(validationAnimations))
           /\ cleared' = cleared
    /\ cleared'.replay > cleared.replay =>
           /\ animations = <<>>
           /\ cleared.replay = 0
           /\ validateCalls' = validateCalls + 1
    /\ cleared'.validation > cleared.validation =>
           /\ validationAnimations = <<>>
           /\ cleared.validation = 0
    /\ (cleared.replay > 0 /\ WithinRun) =>
           /\ animations' = animations
           /\ applied' = applied
           /\ validateCalls' = validateCalls
           /\ cleared'.replay = cleared.replay
    /\ (cleared.validation > 0 /\ WithinRun) =>
           /\ validationAnimations' = validationAnimations
           /\ validated' = validated
           /\ cleared' = cleared

\* the counts of a run
C10_Counts ==
    /\ cleared.replay <= 1
    /\ cleared.validation <= 1
    /\ validateCalls = cleared.replay
    /\ Replaying <=> (RunStarted /\ cleared.replay = 0)
    /\ Validating <=> (cleared.replay = 1 /\ cleared.validation = 0)
    /\ (RunStarted /\ Idle) => (validateCalls = 1 /\ cleared.validation = 1)

C11_OneTimerDrainsLog ==
    /\ TimersRunning <= 1
    /\ ~Idle => \A index \in Buttons : buttonDisabled[index]

StartsRun == Len(phases') = 2 /\ Len(phases) # 2

\* the step pops a record of a log or runs a colour restore a validation
\* tick had scheduled
PlayerOrValidatorStep ==
    \/ Len(animations') < Len(animations)
    \/ Len(validationAnimations') < Len(validationAnimations)
    \/ Len(restoreTimeouts') < Len(restoreTimeouts)

C13_DisplayFrame ==
    /\ StartsRun =>
           /\ binDimensions' = binDimensions
           /\ scales' = scales
    /\ (WithinRun /\ binDimensions' # binDimensions) => PlayerOrValidatorStep

\* C13: the Sort Engine never changes the Display State: binDimensions is
\* the same when a sort routine returns as when it was called; within a
\* run it changes only in replay ticks and validation ticks (the colour
\* restore a validation tick schedules included).
C13_SortLeavesDisplay == [][C13_DisplayFrame]_vars

C13_Witness ==
    /\ Len(phases) = 2
    /\ applied = <<>>
    /\ Len(recorded) >= 2
    /\ generatedArray # preSort
    /\ DisplayValues(binDimensions) = preSort

\* The low cursor starts at lo and is only ever incremented, the high
\* cursor starts at hi and is only ever decremented: the values they took
\* during the call, each of which was used to read the array.
LowCursorValues == call.lo..call.start
HighCursorValues == call.result..call.hi

\* C14: partition(array, lo, hi) returns for every array and every range
\* lo < hi, and all through it both cursors stay in [lo, hi], so that it
\* never reads outside its range.
C14_PartitionCursorsInRange ==
    (call.routine = "partition" /\ call.returned) =>
        /\ LowCursorValues # {}
        /\ HighCursorValues # {}
        /\ LowCursorValues \subseteq call.lo..call.hi
        /\ HighCursorValues \subseteq call.lo..call.hi

C14_Witness ==
    /\ call.routine = "partition"
    /\ call.returned
    /\ call.lo > 0
    /\ call.hi < Length(preSort) - 1
    /\ call.start = call.hi
    /\ call.result = call.hi
    /\ preSort[call.hi + 1] < preSort[call.lo]
    /\ \A x \in call.lo..call.hi : preSort[x] <= preSort[call.lo]

\* the number of indices of a range
RangeSize(lo, hi) == IF hi >= lo THEN hi - lo + 1 ELSE 0

\* every recursive call still to be made is on one of the two sides of its
\* parent's pivot index, inside its parent's range and smaller than it
C15_SubRangesSmaller ==
    call.routine = "quickSort" =>
        \A k \in 1..Len(call.stack) :
            LET frame == call.stack[k]
            IN  ~frame.root =>
                    /\ frame.p \in frame.parentLo..frame.parentHi
                    /\ \/ frame.lo = frame.parentLo /\ frame.hi = frame.p - 1
                       \/ frame.lo = frame.p + 1 /\ frame.hi = frame.parentHi
                    /\ frame.p \notin frame.lo..frame.hi
                    /\ RangeSize(frame.lo, frame.hi)
                           < RangeSize(frame.parentLo, frame.parentHi)

\* quickSort has returned: no call is left to be made
C15_Returned == call.routine = "quickSort" => call.stack = <<>>

\* C15: quickSort terminates for every input array: each recursive call is
\* on a range strictly smaller than its parent's, the two sub-ranges
\* [lo, p-1] and [p+1, hi] leaving out the pivot's final index p.
C15_QuickSortTerminates == []C15_SubRangesSmaller /\ <>C15_Returned

C15_Witness ==
    /\ call.routine = "quickSort"
    /\ call.stack = <<>>
    /\ call.calls >= 7
    /\ Length(preSort) = SortMaxLen
    /\ generatedArray = quickSort(preSort, <<>>, 0, Length(preSort) - 1).array
    /\ animations =
           quickSort(preSort, <<>>, 0, Length(preSort) - 1).animations
    /\ generatedArray = SortAscending(preSort)

\* C16: every call partition(array, lo, hi) records exactly one SwapPivot
\* record, after all the SwapByIndex records of the call, with pivotIndex =
\* lo and swapIndex = the index it returns; also when the two are equal.
C16_OneSwapPivotPerPartition ==
    (call.routine = "partition" /\ call.returned) =>
        /\ Len(recorded) >= 1
        /\ recorded[Len(recorded)] =
               [name |-> "swap-pivot", pivotIndex |-> call.lo,
                swapIndex |-> call.result]
        /\ \A k \in 1..(Len(recorded) - 1) :
               /\ recorded[k].name = "swap-element"
               /\ recorded[k].index1 < recorded[k].index2
               /\ recorded[k].index1 \in call.lo..call.hi
               /\ recorded[k].index2 \in call.lo..call.hi

C16_Witness ==
    /\ call.routine = "partition"
    /\ call.returned
    /\ call.lo > 0
    /\ call.result = call.lo
    /\ recorded = <<[name |-> "swap-pivot", pivotIndex |-> call.lo,
                     swapIndex |-> call.lo]>>
    /\ generatedArray = preSort

\* the largest of array[0..j]
PrefixMax(array, j) ==
    CHOOSE v \in {array[x] : x \in 0..j} : \A x \in 0..j : array[x] <= v

\* When a pass compares the pair (j, j + 1), array[j] holds the largest of
\* the values the pass found in 0..j and array[j + 1] the value it found
\* there: the pairs of the pass over before[0..i] that are out of order
\* when compared.
OutOfOrderWhenCompared(before, i) ==
    {j \in 0..(i - 1) : PrefixMax(before, j) > before[j + 1]}

\* C17: after the call bubble(array, 0, i) of the outer loop array[i] is the
\* maximum of array[0..i], the suffix array[i..N-1] is sorted ascending and
\* holds its final values, and the pass has recorded a swap for exactly
\* the adjacent pairs that were out of order when it compared them.
C17_BubblePassInvariant ==
    (call.routine = "bubbleSort" /\ call.pass > 0) =>
        LET i == call.pass
            N == Length(generatedArray)
            emitted == SubSeq(animations, call.logBefore + 1, Len(animations))
            pairs == OutOfOrderWhenCompared(call.before, i)
        IN  /\ \A x \in 0..i : generatedArray[x] <= generatedArray[i]
            /\ \A x, y \in i..(N - 1) :
                   x < y => generatedArray[x] <= generatedArray[y]
            /\ \A x \in i..(N - 1) :
                   generatedArray[x] = SortAscending(preSort)[x]
            /\ Len(emitted) = Cardinality(pairs)
            /\ \A k \in 1..Len(emitted) :
                   /\ emitted[k].lo \in pairs
                   /\ emitted[k].hi = emitted[k].lo + 1
            /\ \A k \in 1..(Len(emitted) - 1) :
                   emitted[k].lo < emitted[k + 1].lo

C17_Witness ==
    /\ call.routine = "bubbleSort"
    /\ call.pass = 2
    /\ Length(preSort) = SortMaxLen
    /\ call.logBefore >= 1
    /\ Len(animations) - call.logBefore = 1
    /\ \E x \in 0..1 : call.before[x] = call.before[x + 1]
    /\ ~IsSortedAscending(generatedArray)

\* C18: in merge, when the heads of the two sub-runs are equal the element
\* of the left run is written first, so Merge Sort is stable: with every
\* element tagged by the index it had in the input, equal elements of a
\* merged range stand in the order of their tags.
C18_MergeSortStable ==
    call.routine = "mergeSort" =>
        /\ \A k \in DOMAIN generatedArray :
               generatedArray[k] = preSort[call.origin[k]]
        /\ \A x, y \in DOMAIN generatedArray :
               call.origin[x] = call.origin[y] => x = y
        /\ \A x, y \in call.last.lo..call.last.hi :
               (x < y /\ generatedArray[x] = generatedArray[y]) =>
                   call.origin[x] < call.origin[y]
        /\ \A k \in call.last.lo..call.last.hi :
               generatedArray[k] = call.last.before[call.last.sources[k]]
        /\ call.stack = <<>> =>
               \A x, y \in DOMAIN generatedArray :
                   (x < y /\ generatedArray[x] = generatedArray[y]) =>
                       call.origin[x] < call.origin[y]

C18_Witness ==
    /\ call.routine = "mergeSort"
    /\ call.stack = <<>>
    /\ Length(preSort) = SortMaxLen
    /\ preSort[0] = preSort[2]
    /\ preSort[1] < preSort[0]
    /\ preSort[3] = preSort[0]
    /\ call.origin # [k \in DOMAIN preSort |-> k]
    /\ generatedArray =
           mergeSort(preSort, EmptyArray, <<>>, 0, Length(preSort) - 1).a
    /\ animations =
           mergeSort(preSort, EmptyArray, <<>>, 0,
                     Length(preSort) - 1).animations

\* the call mergeSort makes next is a call of merge
MergeIsCalled ==
    /\ call.routine = "mergeSort"
    /\ call.stack # <<>>
    /\ Head(call.stack).op = "merge"

\* C20: whenever mergeSort calls merge(a, aux, lo, mid, hi), lo <= mid < hi
\* holds and both a[lo..mid] and a[mid+1..hi] are sorted ascending.  The
\* arguments of a call of merge are fixed when the call of mergeSort that
\* makes it begins; the array is looked at when the call is made.
C20_MergePrecondition ==
    /\ call.routine = "mergeSort" =>
           \A k \in 1..Len(call.stack) :
               LET frame == call.stack[k]
               IN  frame.op = "merge" =>
                       /\ frame.lo <= frame.mid
                       /\ frame.mid < frame.hi
                       /\ frame.lo \in DOMAIN generatedArray
                       /\ frame.hi \in DOMAIN generatedArray
    /\ MergeIsCalled =>
           LET frame == Head(call.stack)
           IN  /\ \A x, y \in frame.lo..frame.mid :
                      x < y => generatedArray[x] <= generatedArray[y]
               /\ \A x, y \in (frame.mid + 1)..frame.hi :
                      x < y => generatedArray[x] <= generatedArray[y]

C20_Witness ==
    /\ MergeIsCalled
    /\ Head(call.stack).lo = 0
    /\ Head(call.stack).mid = 1
    /\ Head(call.stack).hi = 3
    /\ call.merges = 2
    /\ generatedArray # preSort
    /\ generatedArray[1] > generatedArray[2]

\* C19: every call merge(a, aux, lo, mid, hi) appends exactly hi - lo + 1
\* SetValueAtIndex records, one for each k = lo, lo + 1, ..., hi in
\* ascending order, each with the value written to a[k]; the writes made
\* after one sub-run is exhausted are recorded like the others.
C19_MergeRecordsEveryWrite ==
    (call.routine = "merge" /\ call.returned) =>
        /\ Len(recorded) = call.hi - call.lo + 1
        /\ \A n \in 1..Len(recorded) :
               /\ recorded[n].index = call.lo + n - 1
               /\ recorded[n].value = generatedArray[call.lo + n - 1]
        /\ \A x \in DOMAIN generatedArray :
               x \notin call.lo..call.hi => generatedArray[x] = preSort[x]
        /\ \A v \in Values(preSort) :
               Cardinality({x \in call.lo..call.hi : generatedArray[x] = v})
                   = Cardinality({x \in call.lo..call.hi : preSort[x] = v})

C19_Witness ==
    /\ call.routine = "merge"
    /\ call.returned
    /\ call.lo = 1
    /\ call.mid = 1
    /\ call.hi = 3
    /\ Len(recorded) = 3
    /\ preSort[1] < preSort[2]
    /\ preSort[2] <= preSort[3]
    /\ recorded[1].value = preSort[1]
    /\ recorded[3].value = preSort[3]

\* C21: Counting Sort on an array of length N records exactly N
\* SetValueAtIndex records, for the input positions N-1 down to 0; the
\* indices recorded are a permutation of 0..N-1 and the value recorded for
\* index s is the s-th element of the sorted array.
C21_CountingSortRecords ==
    option = "Counting Sort" =>
        LET N == Length(preSort)
        IN  /\ Len(recorded) = N
            /\ \A k \in 1..Len(recorded) :
                   /\ recorded[k].newValue = preSort[N - k]
                   /\ recorded[k].index = slot[N - k]
                   /\ recorded[k].newValue
                          = SortAscending(preSort)[recorded[k].index]
            /\ {recorded[k].index : k \in 1..Len(recorded)} = 0..(N - 1)

C21_Witness ==
    /\ option = "Counting Sort"
    /\ Length(preSort) = SortMaxLen
    /\ Len(recorded) = SortMaxLen
    /\ ~IsSortedAscending(preSort)
    /\ \E k \in 2..Len(recorded) :
           /\ recorded[k].newValue = recorded[1].newValue
           /\ recorded[k].index = recorded[1].index - 1

\* the Display State as it stood when the replay of the run started
DisplayAtReplayStart == calculateBinDimensions(preSort, scales)

C23_RunCompletes == (Len(phases) = 2) ~> (validated > 0)

\* a run on the empty array, which has no move and no validation record,
\* has emitted the completion signal
C23_Witness ==
    /\ RunStarted
    /\ Length(preSort) = 0
    /\ recorded = <<>>
    /\ validationAnimations = <<>>
    /\ validateCalls = 1
    /\ validated = 1
    /\ phases = PhaseOrder

\* C24: when updateComparisonCountSubj emits a new count,
\* AppComponent.comparisonCount is set to the emitted count, as
\* arrayAccessCount is set to the count updateArrayAccessCountSubj emits.
C24_ComparisonCountPropagates ==
    /\ call.emitted.subject = "comparison" =>
           call.comparisonCount = call.emitted.count
    /\ call.emitted.subject = "arrayAccess" =>
           call.arrayAccessCount = call.emitted.count

\* C25: lockstep replay.  For Bubble Sort, Merge Sort and Quick Sort, with
\* the Display State showing the Working Array as it stood before the sort,
\* the Display State values after the k-th replayed move equal the Working
\* Array right after the k-th recorded mutation, for every k: at every
\* point of the sort the moves recorded so far, replayed, give the Working
\* Array of that point, and the sort ends with the array and the log the
\* routine returns.
C25_LockstepReplay ==
    call.routine = "steps" =>
        /\ DisplayValues(PlayLog(call.option,
                                 calculateBinDimensions(preSort, scales),
                                 scales, recorded, 1))
               = generatedArray
        /\ call.stack = <<>> =>
               LET r == SortRoutine(call.option, preSort, EmptyArray, <<>>)
               IN  /\ generatedArray = r.array
                   /\ recorded = r.animations

\* a sort in progress: two mutations recorded, more to come, the array
\* neither as it was nor sorted yet
C25_Witness ==
    /\ call.routine = "steps"
    /\ call.stack # <<>>
    /\ Len(recorded) = 2
    /\ generatedArray # preSort
    /\ ~IsSortedAscending(generatedArray)
    /\ DisplayValues(PlayLog(call.option,
                             calculateBinDimensions(preSort, scales),
                             scales, recorded, 1))
           = generatedArray

\* C26: after any sequence of array generations and completed runs of any
\* of the four algorithms, whenever the system is Idle the Display State
\* has the length of generatedArray and binDimensions[i].value =
\* generatedArray[i] for every index i.
C26_IdleDisplayShowsArray ==
    Idle =>
        /\ DOMAIN binDimensions = DOMAIN generatedArray
        /\ \A i \in DOMAIN generatedArray :
               binDimensions[i].value = generatedArray[i]

\* Idle after a run that started on the array an earlier run had sorted in
\* place
C26_Witness ==
    /\ Idle
    /\ RunFinished
    /\ preSort # serviceArray
    /\ preSort = SortAscending(serviceArray)
    /\ DisplayValues(binDimensions) = generatedArray
    /\ Length(generatedArray) = MaxLen

\* the fields of a Move Record that carry an index
IndexFields ==
    {"lo", "hi", "index", "index1", "index2", "pivotIndex", "swapIndex"}

\* the indices a Move Record or a Validation Record carries
RecordIndices(record) == {record[f] : f \in IndexFields \cap DOMAIN record}

\* C27: every index carried by a Move Record of any of the four algorithms
\* on an array of length N lies in 0..N-1, and so does every index carried
\* by a Validation Record: no replay tick, validation tick or colour
\* restore is handed an index of a Display State entry that does not exist.
C27_IndicesInBounds ==
    RunStarted =>
        LET N == Length(preSort)
        IN  /\ DOMAIN binDimensions = 0..(N - 1)
            /\ \A k \in 1..Len(recorded) :
                   /\ RecordIndices(recorded[k]) # {}
                   /\ RecordIndices(recorded[k]) \subseteq 0..(N - 1)
            /\ \A k \in 1..Len(animations) :
                   RecordIndices(animations[k]) \subseteq 0..(N - 1)
            /\ \A k \in 1..Len(validationAnimations) :
                   validationAnimations[k].index \in 0..(N - 1)
            /\ \A k \in 1..Len(restoreTimeouts) :
                   restoreTimeouts[k].index \in 0..(N - 1)

\* a validation in progress after a replay whose records reached both ends
\* of the array
C27_Witness ==
    /\ RunStarted
    /\ Length(preSort) = MaxLen
    /\ \E k \in 1..Len(recorded) : 0 \in RecordIndices(recorded[k])
    /\ \E k \in 1..Len(recorded) : (MaxLen - 1) \in RecordIndices(recorded[k])
    /\ applied = recorded
    /\ \E k \in 1..Len(validationAnimations) :
           validationAnimations[k].index = MaxLen - 1
    /\ restoreTimeouts # <<>>

\* C28: at the moment animateValidation emits the completion signal every
\* Display State entry carries the colour saved in its Validation Record:
\* no entry is still green and no colour-restore timeout is still pending.
C28_RestoredBeforeCompletion ==
    RunFinished =>
        /\ restoreTimeouts = <<>>
        /\ \A i \in DOMAIN binDimensions : binDimensions[i].color # Green

=============================================================================
